---- MODULE Spec2Model ----
(***************************************************************************)
(* A model of app.py, the Malaysian Trash Annotation contribution portal:  *)
(* the contribution log (DataManager), the boundary cache and its mirrors  *)
(* (MapManager.get_geojson), the heatmap aggregate (MapManager.            *)
(* get_heatmap_fig), and the Streamlit script runs of main() with the      *)
(* session user, the login/register forms, sign-out and the upload form.   *)
(*                                                                         *)
(* Python values are records tagged with a kind, so that None, a document  *)
(* and a figure can be compared.  One action is one run of the script,     *)
(* from the first line of main() to its end or to st.rerun().              *)
(***************************************************************************)
EXTENDS Integers, Sequences, FiniteSets, TLC

\* ------------------------------------------------------------------ bounds

\* Most records the contribution log holds in the script-run specification.
MaxLog == 2
\* Longest record sequence handed to get_heatmap_fig in SpecHeat.
MaxRecords == 2
\* Most calls of log_contribution in SpecLog.
MaxAppends == 2

\* ------------------------------------------------------------------ Config

ALL_STATES ==
    << "Johor", "Kedah", "Kelantan", "Melaka", "Negeri Sembilan",
       "Pahang", "Perak", "Perlis", "Pulau Pinang", "Sabah",
       "Sarawak", "Selangor", "Terengganu",
       "W.P. Kuala Lumpur", "W.P. Putrajaya", "W.P. Labuan" >>

\* The dict literal, as its (key, value) items in source order.
STATE_MAPPING ==
    << <<"Johor", "Johor">>, <<"Kedah", "Kedah">>, <<"Kelantan", "Kelantan">>,
       <<"Melaka", "Melaka">>, <<"Negeri Sembilan", "Negeri Sembilan">>,
       <<"Pahang", "Pahang">>, <<"Perak", "Perak">>, <<"Perlis", "Perlis">>,
       <<"Penang", "Pulau Pinang">>, <<"Sabah", "Sabah">>,
       <<"Sarawak", "Sarawak">>, <<"Selangor", "Selangor">>,
       <<"Terengganu", "Terengganu">>,
       <<"Kuala Lumpur", "W.P. Kuala Lumpur">>,
       <<"Putrajaya", "W.P. Putrajaya">>, <<"Labuan", "W.P. Labuan">> >>

\* list(Config.STATE_MAPPING.keys()): the options of the Location selectbox.
STATE_MAPPING_keys == { STATE_MAPPING[i][1] : i \in DOMAIN STATE_MAPPING }

\* Config.STATE_MAPPING.get(key, default)
STATE_MAPPING_get(key, default) ==
    IF \E i \in DOMAIN STATE_MAPPING : STATE_MAPPING[i][1] = key
    THEN STATE_MAPPING[CHOOSE i \in DOMAIN STATE_MAPPING :
                           STATE_MAPPING[i][1] = key][2]
    ELSE default

\* The set of the 16 canonical names.
AllStateSet == { ALL_STATES[i] : i \in DOMAIN ALL_STATES }

\* ------------------------------------------------------------ Python values

None == [kind |-> "None"]

\* A str value.
Str(s) == [kind |-> "str", s |-> s]

\* The JSON object a mirror serves as its geometry document, and the empty
\* JSON object {}.
GeoDoc(src) == [kind |-> "dict", name |-> src]
EmptyDoc == [kind |-> "dict", name |-> "{}"]

\* bool(v), as `if user`, `if not geojson`, `if fig` evaluate it: None, the
\* empty string and the empty dict are falsy, every other value is truthy.
Truthy(v) ==
    CASE v.kind = "None" -> FALSE
      [] v.kind = "str"  -> v.s # ""
      [] v.kind = "dict" -> v # EmptyDoc
      [] OTHER           -> TRUE

\* ------------------------------------------------------------- DataManager

\* A file of the working directory: absent, or its lines/content.
NoFile == [exists |-> FALSE]

\* DataFrame.to_csv(LOG_FILE, mode='a', header=header, index=False) of the
\* one-row frame {'state': [official]}: mode 'a' creates a missing file; the
\* column name is written as a line of its own when header is true.
to_csv_append(file, header, official) ==
    LET old == IF file.exists THEN file.lines ELSE << >>
        hdr == IF header THEN << "state" >> ELSE << >>
    IN  [exists |-> TRUE, lines |-> old \o hdr \o << official >>]

\* A faulty variant: the header decision inverted (written on every append to an
\* existing file, never on the first).
log_contribution_header_bug(file, state_common_name) ==
    LET official == STATE_MAPPING_get(state_common_name, state_common_name)
        header == file.exists
    IN  to_csv_append(file, header, official)

\* A faulty variant: the informal name is persisted as given.
log_contribution_unmapped(file, state_common_name) ==
    LET official == state_common_name
        header == ~ file.exists
    IN  to_csv_append(file, header, official)

\* DataManager.log_contribution: the log file after the call.
log_contribution(file, state_common_name) ==
    LET official == STATE_MAPPING_get(state_common_name, state_common_name)
        header == ~ file.exists
    IN  to_csv_append(file, header, official)

\* pd.read_csv: the first line names the column, each later line is a row.
read_csv(file) ==
    [column |-> Head(file.lines), rows |-> Tail(file.lines)]

\* DataManager.get_data: the frame read back, or the empty 'state' frame.
get_data(file) ==
    IF file.exists THEN read_csv(file)
    ELSE [column |-> "state", rows |-> << >>]

\* -------------------------------------------------------------- MapManager

\* The mirrors, in the order of the urls list.
urls ==
    << "https://raw.githubusercontent.com/mptwaktusolat/jakim.geojson/master/malaysia.state.geojson",
       "https://raw.githubusercontent.com/ynshung/malaysia-geojson/master/malaysia.state.geojson" >>

\* What one requests.get(url, timeout=5) can meet:
\*   "geojson"    status 200, the body is the mirror's geometry document
\*   "empty_json" status 200, the body is the JSON text {}
\*   "non200"     any other status
\*   "error"      requests.get raises (timeout, connection error)
\*   "malformed"  status 200, the body is not JSON: r.json() raises
Responses == { "geojson", "empty_json", "non200", "error", "malformed" }

\* r.json() of a 200 response whose body parses.
r_json(url, response) ==
    IF response = "geojson" THEN GeoDoc(url) ELSE EmptyDoc

\* json.dump(data, f) and json.load(f): the text of a document and back.
json_dump(data) == [json |-> data]
json_load(text) == text.json

\* A faulty variant: the cache file is opened for writing before the body is parsed,
\* so a 200 answer that is not JSON leaves a file behind.
RECURSIVE fetch_loop_open_first(_, _, _)
fetch_loop_open_first(i, resp, calls) ==
    IF i > Len(urls)
    THEN [result |-> None, file |-> NoFile, net_calls |-> calls, file_reads |-> 0]
    ELSE LET called == Append(calls, urls[i])
             rest == fetch_loop_open_first(i + 1, resp, called)
         IN  CASE resp[i] = "error" -> rest
               [] resp[i] = "non200" -> rest
               [] resp[i] = "malformed" ->
                    IF rest.file.exists THEN rest
                    ELSE [rest EXCEPT !.file = [exists |-> TRUE,
                                                content |-> json_dump(None)]]
               [] OTHER ->
                    LET data == r_json(urls[i], resp[i])
                    IN  [result |-> data,
                         file |-> [exists |-> TRUE, content |-> json_dump(data)],
                         net_calls |-> called, file_reads |-> 0]

\* The for loop over urls from index i on; calls are the mirrors contacted so
\* far.  A raise inside the try (requests.get, r.json()) is caught by the bare
\* except and continues; a non-200 status falls through to the next url.
RECURSIVE fetch_loop(_, _, _)
fetch_loop(i, resp, calls) ==
    IF i > Len(urls)
    THEN [result |-> None, file |-> NoFile, net_calls |-> calls, file_reads |-> 0]
    ELSE LET called == Append(calls, urls[i])
         IN  CASE resp[i] = "error" -> fetch_loop(i + 1, resp, called)
               [] resp[i] = "non200" -> fetch_loop(i + 1, resp, called)
               [] resp[i] = "malformed" -> fetch_loop(i + 1, resp, called)
               [] OTHER ->
                    LET data == r_json(urls[i], resp[i])
                    IN  [result |-> data,
                         file |-> [exists |-> TRUE, content |-> json_dump(data)],
                         net_calls |-> called, file_reads |-> 0]

\* A faulty variant: the mirrors are asked even when the cache file exists.
get_geojson_body_network_first(file, resp) ==
    LET r == fetch_loop(1, resp, << >>)
    IN  IF r.result = None /\ file.exists
        THEN [result |-> json_load(file.content), file |-> file,
              net_calls |-> r.net_calls, file_reads |-> 1]
        ELSE r

\* The body of MapManager.get_geojson, run when st.cache_resource holds no
\* value: the result, the cache file afterwards, the mirrors contacted and the
\* number of reads of the cache file.
get_geojson_body(file, resp) ==
    IF file.exists
    THEN [result |-> json_load(file.content), file |-> file,
          net_calls |-> << >>, file_reads |-> 1]
    ELSE fetch_loop(1, resp, << >>)

\* A faulty variant: no memoization, the body runs on every call.
get_geojson_uncached(cache, file, resp) ==
    LET r == get_geojson_body(file, resp)
    IN  [result |-> r.result, file |-> r.file, net_calls |-> r.net_calls,
         responses |-> SubSeq(resp, 1, Len(r.net_calls)),
         file_reads |-> r.file_reads,
         cache |-> [set |-> TRUE, value |-> r.result]]

\* MapManager.get_geojson under @st.cache_resource: the first completed call
\* stores its return value (None included); later calls return the stored
\* value and do not run the body.  Beside the result: the cache file and the
\* memo afterwards, the mirrors contacted with the answers they gave, and the
\* number of reads of the cache file.
get_geojson(cache, file, resp) ==
    IF cache.set
    THEN [result |-> cache.value, file |-> file, net_calls |-> << >>,
          responses |-> << >>, file_reads |-> 0, cache |-> cache]
    ELSE LET r == get_geojson_body(file, resp)
         IN  [result |-> r.result, file |-> r.file, net_calls |-> r.net_calls,
              responses |-> SubSeq(resp, 1, Len(r.net_calls)),
              file_reads |-> r.file_reads,
              cache |-> [set |-> TRUE, value |-> r.result]]

\* The missing value pandas leaves where Series.map finds no key.
NaN == -1

\* A faulty variant: each value present counted once, however many rows carry it.
value_counts_presence(rows) ==
    [v \in { rows[i] : i \in DOMAIN rows } |-> 1]

\* Series.value_counts(): each value present, with the number of its rows.
value_counts(rows) ==
    [v \in { rows[i] : i \in DOMAIN rows } |->
        Cardinality({ i \in DOMAIN rows : rows[i] = v })]

\* Series.map(counts): the count of each state, NaN where counts has no key.
series_map(states, counts) ==
    [i \in DOMAIN states |->
        IF states[i] \in DOMAIN counts THEN counts[states[i]] ELSE NaN]

\* A faulty variant: fillna left out, the missing values stay.
fillna_missing(col, value) == col

\* Series.fillna(value)
fillna(col, value) ==
    [i \in DOMAIN col |-> IF col[i] = NaN THEN value ELSE col[i]]

\* Series.max()
RECURSIVE series_max(_)
series_max(col) ==
    IF Len(col) = 1 THEN col[1]
    ELSE LET m == series_max(Tail(col))
         IN  IF col[1] >= m THEN col[1] ELSE m

\* full_data of get_heatmap_fig: the 'state' column is Config.ALL_STATES, the
\* 'count' column the value counts of df_counts['state'] joined on it.
full_data(df_counts) ==
    [state |-> ALL_STATES,
     count |-> IF df_counts.rows # << >>
               THEN fillna(series_map(ALL_STATES, value_counts(df_counts.rows)), 0)
               ELSE [i \in DOMAIN ALL_STATES |-> 0]]

\* A faulty variant: an empty frame is reported like missing boundaries.
get_heatmap_fig_empty_none(df_counts, geojson) ==
    IF ~ Truthy(geojson) \/ df_counts.rows = << >> THEN None
    ELSE LET data == full_data(df_counts)
         IN  [kind |-> "Figure", data |-> data, geojson |-> geojson,
              range_color |-> << 0, series_max(data.count) + 1 >>]

\* MapManager.get_heatmap_fig, given the value MapManager.get_geojson()
\* returned at its first line: None, or the choropleth figure.
get_heatmap_fig(df_counts, geojson) ==
    IF ~ Truthy(geojson) THEN None
    ELSE LET data == full_data(df_counts)
         IN  [kind |-> "Figure", data |-> data, geojson |-> geojson,
              range_color |-> << 0, series_max(data.count) + 1 >>]

\* ------------------------------------------------------------- AuthManager

\* What the identity service can answer to one requests.post:
\*   "200"   the account is signed in / created, the body carries its email
\*   "400"   an error envelope (wrong password, EMAIL_EXISTS, ...)
\*   "error" requests.post raises
AuthResponses == { "200", "400", "error" }

\* AuthManager._request: the pair (email, None) or (None, message).
AuthManager_request(email, password, response) ==
    IF response = "200" THEN << Str(email), None >>
    ELSE IF response = "400" THEN << None, Str("error.message") >>
    ELSE << None, Str("str(e)") >>

\* AuthManager.login keeps the user and drops the error.
AuthManager_login(email, password, response) ==
    AuthManager_request(email, password, response)[1]

\* AuthManager.register returns the pair.
AuthManager_register(email, password, response) ==
    AuthManager_request(email, password, response)

\* ------------------------------------------------------------------- state

VARIABLES
    session_user,   \* st.session_state.user: None or the signed-in email
    log_file,       \* Config.LOG_FILE: absent, or its lines
    geojson_file,   \* Config.GEOJSON_FILE: absent, or its JSON text
    geojson_cache,  \* the st.cache_resource entry of get_geojson
    rerun,          \* st.rerun() was called: the script runs again at once
    event,          \* the widget interaction the last script run handled
    trace,          \* what the last script run did
    appended,       \* history: the names passed to log_contribution so far
    df_counts,      \* SpecHeat: the frame handed to get_heatmap_fig
    geojson,        \* SpecHeat: the boundaries get_geojson() returned to it
    fig             \* SpecHeat: what get_heatmap_fig returned

app_vars == << session_user, log_file, geojson_file, geojson_cache, rerun,
               event, trace, appended >>
heat_vars == << df_counts, geojson, fig >>
vars == << session_user, log_file, geojson_file, geojson_cache, rerun,
           event, trace, appended, df_counts, geojson, fig >>

\* The values the forms are filled with.
Emails == { "amir@example.my" }
Passwords == { "12345", "123456" }
NoUpload == None
Uploads == { [kind |-> "UploadedFile", name |-> "photo.jpg"],
             [kind |-> "UploadedFile", name |-> "not-an-image.png"] }

\* Image.open(f) raises on a file that is no image.
Image_open_raises(f) == f.name = "not-an-image.png"

NotRendered == [kind |-> "NotRendered"]

\* A script run that has done nothing yet.
NoTrace ==
    [screen |-> "none", login_called |-> FALSE, register_called |-> FALSE,
     auth_user |-> None, image_saved |-> None, logged |-> FALSE,
     geo_called |-> FALSE, memo_hit |-> FALSE, file_existed |-> FALSE,
     geo_result |-> None, net_calls |-> << >>, responses |-> << >>,
     file_reads |-> 0, fig |-> NotRendered, datapoints |-> 0, message |-> ""]

\* The cache file a deployment may ship beside the script.
ShippedGeojson ==
    [exists |-> TRUE, content |-> json_dump(GeoDoc("malaysia_states_v2.geojson"))]

\* The process has started, main() has not run yet: no session user, no
\* contribution log, no memoized boundaries; the boundary cache file is
\* absent or shipped with the deployment.
Init ==
    /\ session_user = None
    /\ log_file = NoFile
    /\ geojson_file \in { NoFile, ShippedGeojson }
    /\ geojson_cache = [set |-> FALSE]
    /\ rerun = FALSE
    /\ event = [kind |-> "none"]
    /\ trace = NoTrace
    /\ appended = << >>
    /\ df_counts = get_data(NoFile)
    /\ geojson = None
    /\ fig = NotRendered

\* Every way one call of get_geojson can end in the current state, over the
\* answers the two mirrors may give.
GeojsonOutcomes ==
    { get_geojson(geojson_cache, geojson_file, resp) :
        resp \in [DOMAIN urls -> Responses] }

\* render_sidebar past the Sign Out button, then tab 1 of render_main_app:
\* the metric, get_data, get_heatmap_fig (whose call of get_geojson ended as
\* g) and the chart or the error box.
heatmap_tab(g) ==
    LET df == get_data(log_file)
        f == get_heatmap_fig(df, g.result)
    IN  [NoTrace EXCEPT
           !.screen = "main",
           !.datapoints = Len(df.rows),
           !.geo_called = TRUE,
           !.memo_hit = geojson_cache.set,
           !.file_existed = geojson_file.exists,
           !.geo_result = g.result,
           !.net_calls = g.net_calls,
           !.responses = g.responses,
           !.file_reads = g.file_reads,
           !.fig = f,
           !.message = IF Truthy(f) THEN "" ELSE "Map data unavailable."]

\* main() with no user in the session and no form submitted.
LoginScreen ==
    /\ ~ Truthy(session_user)
    /\ rerun' = FALSE
    /\ event' = [kind |-> "view"]
    /\ trace' = [NoTrace EXCEPT !.screen = "login"]
    /\ UNCHANGED << session_user, log_file, geojson_file, geojson_cache,
                    appended, heat_vars >>

\* A faulty variant: the session user is set from the form even when login failed.
LoginSubmit_trusts_form(email, password, response) ==
    /\ ~ Truthy(session_user)
    /\ ~ rerun
    /\ LET user == AuthManager_login(email, password, response)
       IN  /\ event' = [kind |-> "login", email |-> email, password |-> password]
           /\ session_user' = Str(email)
           /\ rerun' = TRUE
           /\ trace' = [NoTrace EXCEPT !.screen = "login",
                                       !.login_called = TRUE,
                                       !.auth_user = user,
                                       !.message = "Welcome back!"]
    /\ UNCHANGED << log_file, geojson_file, geojson_cache, appended, heat_vars >>

\* The login form submitted.
LoginSubmit(email, password, response) ==
    /\ ~ Truthy(session_user)
    /\ ~ rerun
    /\ LET user == AuthManager_login(email, password, response)
       IN  /\ event' = [kind |-> "login", email |-> email, password |-> password]
           /\ IF Truthy(user)
              THEN /\ session_user' = user
                   /\ rerun' = TRUE
                   /\ trace' = [NoTrace EXCEPT !.screen = "login",
                                               !.login_called = TRUE,
                                               !.auth_user = user,
                                               !.message = "Welcome back!"]
              ELSE /\ session_user' = session_user
                   /\ rerun' = FALSE
                   /\ trace' = [NoTrace EXCEPT !.screen = "login",
                                               !.login_called = TRUE,
                                               !.auth_user = user,
                                               !.message = "Invalid credentials."]
    /\ UNCHANGED << log_file, geojson_file, geojson_cache, appended, heat_vars >>

\* The register form submitted.
RegisterSubmit(new_email, new_pass, confirm_pass, response) ==
    /\ ~ Truthy(session_user)
    /\ ~ rerun
    /\ event' = [kind |-> "register", new_email |-> new_email,
                 new_pass |-> new_pass, confirm_pass |-> confirm_pass]
    /\ IF new_pass # confirm_pass
       THEN /\ trace' = [NoTrace EXCEPT !.screen = "login",
                                        !.message = "Passwords differ!"]
            /\ UNCHANGED << session_user, rerun >>
       ELSE IF Len(new_pass) < 6
       THEN /\ trace' = [NoTrace EXCEPT !.screen = "login",
                                        !.message = "Password too short."]
            /\ UNCHANGED << session_user, rerun >>
       ELSE LET r == AuthManager_register(new_email, new_pass, response)
            IN  IF Truthy(r[1])
                THEN /\ session_user' = r[1]
                     /\ rerun' = TRUE
                     /\ trace' = [NoTrace EXCEPT !.screen = "login",
                                                 !.register_called = TRUE,
                                                 !.auth_user = r[1],
                                                 !.message = "Created! Logging in..."]
                ELSE /\ trace' = [NoTrace EXCEPT !.screen = "login",
                                                 !.register_called = TRUE,
                                                 !.auth_user = r[1],
                                                 !.message = "Error"]
                     /\ UNCHANGED << session_user, rerun >>
    /\ UNCHANGED << log_file, geojson_file, geojson_cache, appended, heat_vars >>

\* The Sign Out button of the sidebar: the run ends at st.rerun(), before the
\* metric and before render_main_app.
SignOut ==
    /\ Truthy(session_user)
    /\ ~ rerun
    /\ session_user' = None
    /\ rerun' = TRUE
    /\ event' = [kind |-> "sign_out"]
    /\ trace' = [NoTrace EXCEPT !.screen = "main"]
    /\ UNCHANGED << log_file, geojson_file, geojson_cache, appended, heat_vars >>

\* main() with a user in the session and no button pressed: the sidebar and
\* the three tabs are rendered.
MainApp ==
    /\ Truthy(session_user)
    /\ \E g \in GeojsonOutcomes :
         /\ geojson_cache' = g.cache
         /\ geojson_file' = g.file
         /\ trace' = heatmap_tab(g)
    /\ rerun' = FALSE
    /\ event' = [kind |-> "view"]
    /\ UNCHANGED << session_user, log_file, appended, heat_vars >>

\* A faulty variant: the agreement box is not checked before the side effects.
UploadSubmit_agree_unchecked(f, agree) ==
    /\ Truthy(session_user)
    /\ ~ rerun
    /\ event' = [kind |-> "upload", f |-> f, agree |-> agree]
    /\ \E g \in GeojsonOutcomes :
         LET h == heatmap_tab(g)
         IN  /\ geojson_cache' = g.cache
             /\ geojson_file' = g.file
             /\ IF ~ Truthy(f)
                THEN /\ trace' = [h EXCEPT
                                    !.message = "File and Agreement required."]
                     /\ UNCHANGED << log_file, appended >>
                ELSE IF Image_open_raises(f)
                THEN /\ trace' = [h EXCEPT !.message = "exception"]
                     /\ UNCHANGED << log_file, appended >>
                ELSE /\ Len(appended) < MaxLog
                     /\ \E loc \in STATE_MAPPING_keys :
                          /\ trace' = [h EXCEPT
                                         !.image_saved =
                                             [kind |-> "file",
                                              user |-> session_user.s,
                                              loc |-> loc],
                                         !.logged = TRUE,
                                         !.message = "Uploaded!"]
                          /\ log_file' = log_contribution(log_file, loc)
                          /\ appended' = Append(appended, loc)
    /\ rerun' = FALSE
    /\ UNCHANGED << session_user, heat_vars >>

\* The upload form submitted with file f and the agreement box: tab 1 is
\* rendered first, from the log as it is; then tab 2 validates, saves the
\* image and logs the contribution for the location chosen in the selectbox
\* (the location is read only once the validation has passed).
UploadSubmit(f, agree) ==
    /\ Truthy(session_user)
    /\ ~ rerun
    /\ event' = [kind |-> "upload", f |-> f, agree |-> agree]
    /\ \E g \in GeojsonOutcomes :
         LET h == heatmap_tab(g)
         IN  /\ geojson_cache' = g.cache
             /\ geojson_file' = g.file
             /\ IF ~ Truthy(f) \/ ~ agree
                THEN /\ trace' = [h EXCEPT
                                    !.message = "File and Agreement required."]
                     /\ UNCHANGED << log_file, appended >>
                ELSE IF Image_open_raises(f)
                THEN /\ trace' = [h EXCEPT !.message = "exception"]
                     /\ UNCHANGED << log_file, appended >>
                ELSE /\ Len(appended) < MaxLog
                     /\ \E loc \in STATE_MAPPING_keys :
                          /\ trace' = [h EXCEPT
                                         !.image_saved =
                                             [kind |-> "file",
                                              user |-> session_user.s,
                                              loc |-> loc],
                                         !.logged = TRUE,
                                         !.message = "Uploaded!"]
                          /\ log_file' = log_contribution(log_file, loc)
                          /\ appended' = Append(appended, loc)
    /\ rerun' = FALSE
    /\ UNCHANGED << session_user, heat_vars >>

\* One run of the script.
Next ==
    \/ LoginScreen
    \/ \E email \in Emails, password \in Passwords, response \in AuthResponses :
         LoginSubmit(email, password, response)
    \/ \E new_email \in Emails, new_pass \in Passwords, confirm_pass \in Passwords,
          response \in AuthResponses :
         RegisterSubmit(new_email, new_pass, confirm_pass, response)
    \/ SignOut
    \/ MainApp
    \/ \E f \in Uploads \cup { NoUpload }, agree \in BOOLEAN :
         UploadSubmit(f, agree)

Spec == Init /\ [][Next]_vars

\* ------------------------------------------------- the log, call by call

\* The names log_contribution is called with: the selectbox options and a
\* name the mapping does not know.
LogNames == STATE_MAPPING_keys \cup { "Atlantis" }

\* One call of DataManager.log_contribution.
LogAppend(state_common_name) ==
    /\ Len(appended) < MaxAppends
    /\ log_file' = log_contribution(log_file, state_common_name)
    /\ appended' = Append(appended, state_common_name)
    /\ UNCHANGED << session_user, geojson_file, geojson_cache, rerun, event,
                    trace, df_counts, geojson, fig >>

\* One call of DataManager.get_data; the frame is kept in df_counts.
LogRead ==
    /\ df_counts' = get_data(log_file)
    /\ UNCHANGED << session_user, log_file, geojson_file, geojson_cache, rerun,
                    event, trace, appended, geojson, fig >>

NextLog ==
    \/ \E state_common_name \in LogNames : LogAppend(state_common_name)
    \/ LogRead

SpecLog == Init /\ [][NextLog]_vars

\* --------------------------------------- get_heatmap_fig, frame by frame

\* The state values a frame handed to get_heatmap_fig may carry: the 16
\* canonical names, an informal alias and a name of no region.
HeatNames == AllStateSet \cup { "Penang", "Atlantis" }

RECURSIVE SeqsUpTo(_, _)
SeqsUpTo(S, n) ==
    IF n = 0 THEN { << >> }
    ELSE LET shorter == SeqsUpTo(S, n - 1)
         IN  shorter \cup { Append(q, x) : q \in shorter, x \in S }

InitHeat ==
    /\ session_user = None
    /\ log_file = NoFile
    /\ geojson_file \in { NoFile, ShippedGeojson }
    /\ geojson_cache = [set |-> FALSE]
    /\ rerun = FALSE
    /\ event = [kind |-> "none"]
    /\ trace = NoTrace
    /\ appended = << >>
    /\ df_counts \in { [column |-> "state", rows |-> r] :
                         r \in SeqsUpTo(HeatNames, MaxRecords) }
    /\ geojson = None
    /\ fig = NotRendered

\* One call of MapManager.get_heatmap_fig(df_counts): get_geojson first, then
\* the aggregate and the figure.
HeatmapFig ==
    /\ \E g \in GeojsonOutcomes :
         /\ geojson_cache' = g.cache
         /\ geojson_file' = g.file
         /\ geojson' = g.result
         /\ fig' = get_heatmap_fig(df_counts, g.result)
    /\ UNCHANGED << session_user, log_file, rerun, event, trace, appended,
                    df_counts >>

NextHeat == HeatmapFig

SpecHeat == InitHeat /\ [][NextHeat]_vars

\* ------------------------------------------------------------------ claims

RECURSIVE SumSeq(_)
SumSeq(q) == IF q = << >> THEN 0 ELSE Head(q) + SumSeq(Tail(q))

\* The positions of a frame whose state is one of the 16 canonical names.
CanonicalRows(df) == { i \in DOMAIN df.rows : df.rows[i] \in AllStateSet }

C2_SixteenKeys ==
    fig.kind = "Figure" =>
        /\ fig.data.state = ALL_STATES
        /\ Len(fig.data.state) = 16
        /\ Cardinality({ fig.data.state[i] : i \in DOMAIN fig.data.state }) = 16
        /\ DOMAIN fig.data.count = DOMAIN fig.data.state
        /\ \A i \in DOMAIN fig.data.count :
             /\ fig.data.count[i] \in Nat
             /\ (\A j \in DOMAIN df_counts.rows :
                    df_counts.rows[j] # fig.data.state[i])
                  => fig.data.count[i] = 0

\* The aggregate of a frame that names a region and a name outside the 16.
C2_Witness ==
    /\ fig.kind = "Figure"
    /\ df_counts.rows = << "Sabah", "Atlantis" >>
    /\ Cardinality({ i \in DOMAIN fig.data.count : fig.data.count[i] = 0 }) = 15

\* The canonical names of a sequence of names, by the mapping.
Canonical(names) ==
    [i \in DOMAIN names |-> STATE_MAPPING_get(names[i], names[i])]

\* C3: after N calls of log_contribution on a log that did not exist,
\* get_data returns the N canonical names in append order; the file is the
\* header line followed by them (one header, written by the first append);
\* with N = 0 there is no file and get_data is empty; a frame read earlier is
\* a prefix of what is read now.
C3_RoundTrip ==
    /\ get_data(log_file).column = "state"
    /\ get_data(log_file).rows = Canonical(appended)
    /\ log_file.exists <=> appended # << >>
    /\ log_file.exists => log_file.lines = << "state" >> \o Canonical(appended)
    /\ df_counts.column = "state"
    /\ Len(df_counts.rows) <= Len(appended)
    /\ df_counts.rows = SubSeq(Canonical(appended), 1, Len(df_counts.rows))

\* Two appends read back, the first through an alias.
C3_Witness ==
    /\ appended = << "Penang", "Johor" >>
    /\ df_counts.rows = << "Pulau Pinang", "Johor" >>

\* C4: every record of the contribution log is one of the 16 canonical names.
C4_RecordsCanonical ==
    \A i \in DOMAIN get_data(log_file).rows :
        get_data(log_file).rows[i] \in AllStateSet

\* An upload for the location "Kuala Lumpur" has been logged.
C4_Witness ==
    /\ trace.logged
    /\ appended # << >>
    /\ appended[Len(appended)] = "Kuala Lumpur"
    /\ get_data(log_file).rows[Len(appended)] = "W.P. Kuala Lumpur"

\* C7 as stated: get_heatmap_fig returns None exactly when the boundaries
\* are None.
C7_NoneIffNone ==
    fig # NotRendered => (fig = None <=> geojson = None)

\* C7, amended: get_heatmap_fig returns None exactly when the boundaries are
\* falsy, that is None or the empty document {}; with any other boundaries it
\* returns a figure for every record sequence, the empty one included.
C7_NoneIffFalsy ==
    fig # NotRendered =>
        /\ fig = None <=> geojson \in { None, EmptyDoc }
        /\ fig # None => fig.kind = "Figure" /\ fig.geojson = geojson

\* A figure from an empty frame.
C7_Witness ==
    /\ fig.kind = "Figure"
    /\ df_counts.rows = << >>
    /\ geojson = GeoDoc(urls[2])

\* The answers of a mirror that make get_geojson go on to the next one, and
\* those that make it cache and return the document.
Failures == { "non200", "error", "malformed" }
Successes == { "geojson", "empty_json" }

\* The document a successful answer of mirror i carries.
Served(i, response) ==
    IF response = "geojson" THEN GeoDoc(urls[i]) ELSE EmptyDoc

C8_ValidationFirst ==
    [][ /\ ( /\ event'.kind = "register"
             /\ \/ event'.new_pass # event'.confirm_pass
                \/ Len(event'.new_pass) < 6 )
           => /\ ~ trace'.register_called
              /\ session_user' = session_user
              /\ ~ rerun'
              /\ log_file' = log_file
        /\ ( /\ event'.kind = "upload"
             /\ (event'.f = NoUpload \/ ~ event'.agree) )
           => /\ trace'.image_saved = None
              /\ ~ trace'.logged
              /\ log_file' = log_file
              /\ appended' = appended
      ]_vars

\* An upload with a file and no agreement was rejected while the log held a
\* record.
C8_Witness ==
    /\ event.kind = "upload"
    /\ event.f # NoUpload
    /\ ~ event.agree
    /\ trace.message = "File and Agreement required."
    /\ Len(appended) = 1
    /\ log_file.lines = << "state" >> \o Canonical(appended)

\* C9: the session user becomes a user only in a run where login or register
\* was called and returned that identity; the Sign Out run sets it to None; the
\* log grows or an image is saved only in a run that starts and ends with a
\* user in the session; a run that starts with no user renders the login
\* screen only.
C9_SessionGating ==
    [][ /\ (Truthy(session_user') /\ session_user' # session_user)
           => /\ trace'.login_called \/ trace'.register_called
              /\ trace'.auth_user = session_user'
        /\ event'.kind = "sign_out" => session_user' = None
        /\ (log_file' # log_file \/ trace'.image_saved # None)
           => /\ Truthy(session_user)
              /\ session_user' = session_user
              /\ trace'.image_saved.user = session_user.s
        /\ ~ Truthy(session_user)
           => /\ trace'.screen = "login"
              /\ ~ trace'.geo_called
              /\ trace'.fig = NotRendered
      ]_vars

\* Signed out after an upload was logged.
C9_Witness ==
    /\ session_user = None
    /\ event.kind = "sign_out"
    /\ appended # << >>
    /\ log_file.exists

\* C10: once get_geojson has completed a call, the memoized value (a document
\* or None) never changes, and every later call returns it without reading
\* the cache file, contacting a mirror or writing the cache file; the first
\* completed call is the one that sets it.
C10_Memoized ==
    [][ /\ geojson_cache.set
           => /\ geojson_cache' = geojson_cache
              /\ trace'.geo_called
                 => /\ trace'.memo_hit
                    /\ trace'.geo_result = geojson_cache.value
                    /\ trace'.net_calls = << >>
                    /\ trace'.file_reads = 0
                    /\ geojson_file' = geojson_file
                    /\ (geojson_cache.value = None => trace'.fig = None)
        /\ (~ geojson_cache.set /\ trace'.geo_called)
           => /\ geojson_cache'.set
              /\ geojson_cache'.value = trace'.geo_result
      ]_vars

\* A later run answered from the memo that all mirrors had failed.
C10_Witness ==
    /\ trace.geo_called
    /\ trace.memo_hit
    /\ trace.geo_result = None
    /\ trace.message = "Map data unavailable."
    /\ ~ geojson_file.exists

====
